---- MODULE Spec2Model ----
(***************************************************************************)
(* rppal::gpio -- the Gpio facade (src/src/gpio.rs).                       *)
(*                                                                         *)
(* Gpio::new, Gpio::get, Gpio::poll_interrupts and Drop for Gpio, run by   *)
(* several threads over the two process-wide registries GPIO_INSTANCED     *)
(* and PINS_TAKEN.  Every atomic access of the source (load,               *)
(* compare_and_swap, store) is one step, so that calls of different        *)
(* threads interleave exactly where the hardware lets them.                *)
(*                                                                         *)
(* Spec         Gpio::new, Gpio::get, the drop of a Gpio and of a Pin      *)
(* SpecPoll     poll_interrupts on one Gpio with every line armed          *)
(* SpecPollFair the same under fair scheduling                             *)
(* SpecPollTwo  poll_interrupts with two Gpio values live                  *)
(* SpecPin      the life of one Pin handle, up to its release              *)
(* SpecMode     mode writes of several threads to one register word        *)
(***************************************************************************)
EXTENDS Naturals, Sequences, FiniteSets

\* ------------------------------------------------------------------ bounds
\* Number of threads that call into the library.
NumThreads == 2
\* Number of Gpio values ever handed out by a successful Gpio::new.
MaxGpios == 3
\* pin::MAX, the number of addressable lines (54 on the hardware), scaled down.
MAX == 2

\* Number of edges the hardware reports on the armed lines.
MaxEdges == 4

Threads == 1..NumThreads
GpioIds == 1..MaxGpios
Lines == 0..(MAX - 1)
\* The u8 arguments callers pass to get: every valid line and one out of range.
PinArgs == 0..MAX
\* enum Trigger: the edge every line is armed for; a rising edge reads Level::High.
ArmedTrigger == "RisingEdge"
EdgeLevel == IF ArmedTrigger = "RisingEdge" THEN "High" ELSE "Low"
\* timeout: Option<Duration>, None or Some(d).
Timeouts == {"None", "Some"}
\* pins: &[&InputPin], any slice of input pins: the pins in the order they
\* are given, a pin possibly more than once, the empty slice included.
PinSlices == UNION {[1..n -> Lines] : n \in 0..MAX}
\* The lines of the pins of a slice.
InSlice(s) == {s[i] : i \in DOMAIN s}

VARIABLES
    GPIO_INSTANCED, \* static AtomicBool: the single-instance flag
    PINS_TAKEN,     \* static [AtomicBool; pin::MAX]: the per-line taken flags
    pc,             \* per thread: its position inside Gpio::new
    live,           \* the Gpio values returned by new and not yet dropped
    nextId,         \* identity of the next Gpio value new returns
    pins,           \* per line: the live Pin handles, each with the Gpio it came from
    last,           \* the operation that completed last, and what it returned
    started,        \* calls to Gpio::new begun so far (2 stands for "two", 3 for "more")
    quiet,          \* no caller has dropped a Gpio and no initialisation has failed so far
    released,       \* a caller dropped a Gpio while no new was running, and no new completed since
    freed,          \* the line whose Pin handle was released last (MAX: none yet)
    mutex,          \* per Gpio: the thread holding its sync_interrupts Mutex, 0 when
                    \* free, Poisoned when free after a holder panicked
    ppc,            \* per thread: its position inside poll_interrupts
    parg,           \* per thread: the arguments of its poll_interrupts call
    kernel,         \* per line: the edges reported by the hardware and not yet read
    cache,          \* EventLoop: the cached, unconsumed events, oldest first
    edges,          \* number of edges reported so far; an edge's id is its rank
    returned,       \* ids of the events poll_interrupts has returned
    discarded,      \* ids of the cached events a reset has discarded
    lost,           \* ids of the events dropped when a newer event of their line was cached
    plast,          \* what the poll_interrupts call that returned in the last step returned
    asked,          \* the pins and reset of the call that entered EventLoop::poll in the last step
    GPFSEL,         \* the function-select register word: one 3-bit mode field per line
    GPPUD,          \* per line: the state of its pull resistor
    hnd,            \* per line: the fields of its live Pin handle
    wpc,            \* per thread: its position inside a mode write
    wreg            \* per thread: the line, mode and register word of its mode write

gpioVars == <<GPIO_INSTANCED, PINS_TAKEN, pc, live, nextId, pins, last, started, quiet, released, freed>>
pollVars == <<mutex, ppc, parg, kernel, cache, edges, returned, discarded, lost, plast, asked>>
regVars == <<GPFSEL, GPPUD, hnd, wpc, wreg>>
vars == <<gpioVars, pollVars, regVars>>

NoOp == [op |-> "none", g |-> 0, p |-> 0, res |-> "-", site |-> "-", rel |-> FALSE]

\* What a call returned: operation, Gpio, line, result, the return site inside
\* the function, and whether `released` held when it returned.
Ret(op, g, p, res, site) ==
    [op |-> op, g |-> g, p |-> p, res |-> res, site |-> site, rel |-> released]

NoArgs == [g |-> 0, pins |-> {}, timeout |-> "None"]
\* The state of a Mutex whose guard was dropped by a panicking thread.
Poisoned == NumThreads + 1
NoAsk == [pins |-> << >>, reset |-> FALSE]
NoPoll == [res |-> "-", line |-> 0, level |-> "-", id |-> 0, waited |-> FALSE, polled |-> FALSE]

\* enum Mode with its #[repr(u8)] discriminants, the 3-bit field values.
Mode == [Input |-> 0, Output |-> 1, Alt5 |-> 2, Alt4 |-> 3,
         Alt0 |-> 4, Alt1 |-> 5, Alt2 |-> 6, Alt3 |-> 7]
Modes == DOMAIN Mode
\* enum PullUpDown.
PullUpDown == {"Off", "PullDown", "PullUp"}

\* The values of a register word holding the mode fields of all lines.
Words == 0..((8 ^ MAX) - 1)

\* `mode as u32`, and the variant a 3-bit field value stands for.
Encode(m) == Mode[m]
Decode(bits) == CHOOSE m \in Modes : Mode[m] = bits

\* read_mode(line): the line's field, shifted down and masked.
ReadMode(w, l) == Decode((w \div (8 ^ l)) % 8)

\* The word write_mode(line, mode) stores for a word it has read as w:
\* (w & !(0b111 << shift)) | (mode << shift).
WriteMode(w, l, m) == (w - ((w \div (8 ^ l)) % 8) * (8 ^ l)) + Encode(m) * (8 ^ l)

\* The fields of a Pin handle: the line's mode when it was checked out, the
\* restore-on-release flag (on by default), whether its interrupt is armed,
\* how far its release has got ("no": not begun; then the step that comes
\* next) and whether the release has changed the line's mode.
NoHandle == [held |-> FALSE, prev |-> "Input", clear |-> TRUE, armed |-> FALSE,
             rel |-> "no", wrote |-> FALSE]
NewHandle(w, l) == [held |-> TRUE, prev |-> ReadMode(w, l), clear |-> TRUE, armed |-> FALSE,
                    rel |-> "no", wrote |-> FALSE]

NoWrite == [line |-> 0, mode |-> "Input", value |-> 0, raced |-> FALSE]

\* The registers as the library finds them when every line is an input with
\* its pull resistor off, no handle checked out, no mode write under way.
InitRegs ==
    /\ GPFSEL = 0
    /\ GPPUD = [l \in Lines |-> "Off"]
    /\ hnd = [l \in Lines |-> NoHandle]
    /\ wpc = [t \in Threads |-> "idle"]
    /\ wreg = [t \in Threads |-> NoWrite]

\* The event loop of a freshly built Gpio: nothing cached, nobody polling.
InitEventLoop ==
    /\ mutex = [g \in GpioIds |-> 0]
    /\ ppc = [t \in Threads |-> "idle"]
    /\ parg = [t \in Threads |-> NoArgs]
    /\ kernel = [l \in Lines |-> << >>]
    /\ cache = << >>
    /\ edges = 0
    /\ returned = {}
    /\ discarded = {}
    /\ lost = {}
    /\ plast = NoPoll
    /\ asked = NoAsk

Init ==
    /\ InitEventLoop
    /\ InitRegs
    /\ GPIO_INSTANCED = FALSE
    /\ PINS_TAKEN = [l \in Lines |-> FALSE]
    /\ pc = [t \in Threads |-> "idle"]
    /\ live = {}
    /\ nextId = 1
    /\ pins = [l \in Lines |-> << >>]
    /\ last = NoOp
    /\ started = 0
    /\ quiet = TRUE
    /\ released = FALSE
    /\ freed = MAX

\* ------------------------------------------------------------- Gpio::new

InNew == {t \in Threads : pc[t] # "idle"}

\* Mutant of NewLoad: no pre-check, every call goes on to initialise and
\* leaves the decision to the compare_and_swap.
NewLoadNoPreCheck(t) ==
    /\ pc[t] = "idle"
    /\ nextId + Cardinality(InNew) <= MaxGpios
    /\ started' = IF started < 3 THEN started + 1 ELSE started
    /\ pc' = [pc EXCEPT ![t] = "init"]
    /\ UNCHANGED <<GPIO_INSTANCED, PINS_TAKEN, live, nextId, pins, last, quiet, released, freed>>
    /\ UNCHANGED <<pollVars, regVars>>

\* Mutant of NewLoad: the pre-check is a swap(true), which takes the claim
\* before anything is initialised.
NewLoadClaims(t) ==
    /\ pc[t] = "idle"
    /\ nextId + Cardinality(InNew) <= MaxGpios
    /\ started' = IF started < 3 THEN started + 1 ELSE started
    /\ IF GPIO_INSTANCED
          THEN /\ last' = Ret("new", 0, 0, "InstanceExists", "load")
               /\ pc' = pc
               /\ UNCHANGED GPIO_INSTANCED
          ELSE /\ pc' = [pc EXCEPT ![t] = "init"]
               /\ GPIO_INSTANCED' = TRUE
               /\ last' = last
    /\ UNCHANGED <<PINS_TAKEN, live, nextId, pins, quiet, released, freed>>
    /\ UNCHANGED <<pollVars, regVars>>

\* GPIO_INSTANCED.load(SeqCst) and the early return.
NewLoad(t) ==
    /\ pc[t] = "idle"
    /\ nextId + Cardinality(InNew) <= MaxGpios
    /\ started' = IF started < 3 THEN started + 1 ELSE started
    /\ IF GPIO_INSTANCED
          THEN /\ last' = Ret("new", 0, 0, "InstanceExists", "load")
               /\ pc' = pc
          ELSE /\ pc' = [pc EXCEPT ![t] = "init"]
               /\ last' = last
    /\ UNCHANGED <<GPIO_INSTANCED, PINS_TAKEN, live, nextId, pins, quiet, released, freed>>
    /\ UNCHANGED <<pollVars, regVars>>

\* The three fallible initialisation calls, each ending the call with `?`.
InitOutcomes == {"ok", "find_driver", "EventLoop::new", "GpioMem::open"}

\* Mutant of NewInit: the claim is taken before the initialisation and a
\* failed initialisation returns without giving it back.
NewInitKeepsClaim(t) ==
    /\ pc[t] = "init"
    /\ \E outcome \in InitOutcomes :
          IF outcome = "ok"
             THEN /\ pc' = [pc EXCEPT ![t] = "cas"]
                  /\ UNCHANGED <<GPIO_INSTANCED, last, quiet>>
             ELSE /\ pc' = [pc EXCEPT ![t] = "idle"]
                  /\ GPIO_INSTANCED' = TRUE
                  /\ last' = Ret("new", 0, 0, "Err", outcome)
                  /\ quiet' = FALSE
    /\ UNCHANGED <<PINS_TAKEN, live, nextId, pins, started, released, freed>>
    /\ UNCHANGED <<pollVars, regVars>>

NewInit(t) ==
    /\ pc[t] = "init"
    /\ \E outcome \in InitOutcomes :
          IF outcome = "ok"
             THEN /\ pc' = [pc EXCEPT ![t] = "cas"]
                  /\ UNCHANGED <<last, quiet>>
             ELSE /\ pc' = [pc EXCEPT ![t] = "idle"]
                  /\ last' = Ret("new", 0, 0, "Err", outcome)
                  /\ quiet' = FALSE
    /\ UNCHANGED <<GPIO_INSTANCED, PINS_TAKEN, live, nextId, pins, started, released, freed>>
    /\ UNCHANGED <<pollVars, regVars>>

\* Mutant of NewCas: a plain store(true) in place of the compare_and_swap.
NewCasBlind(t) ==
    /\ pc[t] = "cas"
    /\ GPIO_INSTANCED' = TRUE
    /\ live' = live \cup {nextId}
    /\ nextId' = nextId + 1
    /\ pc' = [pc EXCEPT ![t] = "idle"]
    /\ last' = Ret("new", nextId, 0, "Ok", "end")
    /\ released' = FALSE
    /\ UNCHANGED <<PINS_TAKEN, pins, started, quiet, freed>>
    /\ UNCHANGED <<pollVars, regVars>>

\* Mutant of NewCas: a new Gpio starts with a fresh registry of taken lines.
NewCasResetsPins(t) ==
    /\ pc[t] = "cas"
    /\ IF GPIO_INSTANCED
          THEN /\ pc' = [pc EXCEPT ![t] = "drop"]
               /\ UNCHANGED <<GPIO_INSTANCED, PINS_TAKEN, live, nextId, last, released>>
          ELSE /\ GPIO_INSTANCED' = TRUE
               /\ PINS_TAKEN' = [l \in Lines |-> FALSE]
               /\ live' = live \cup {nextId}
               /\ nextId' = nextId + 1
               /\ pc' = [pc EXCEPT ![t] = "idle"]
               /\ last' = Ret("new", nextId, 0, "Ok", "end")
               /\ released' = FALSE
    /\ UNCHANGED <<pins, started, quiet, freed>>
    /\ UNCHANGED <<pollVars, regVars>>

\* GPIO_INSTANCED.compare_and_swap(false, true, SeqCst), with the local `gpio`
\* already built: on success the value is returned, on failure it is about to
\* go out of scope.
NewCas(t) ==
    /\ pc[t] = "cas"
    /\ IF GPIO_INSTANCED
          THEN /\ pc' = [pc EXCEPT ![t] = "drop"]
               /\ UNCHANGED <<GPIO_INSTANCED, live, nextId, last, released>>
          ELSE /\ GPIO_INSTANCED' = TRUE
               /\ live' = live \cup {nextId}
               /\ nextId' = nextId + 1
               /\ pc' = [pc EXCEPT ![t] = "idle"]
               /\ last' = Ret("new", nextId, 0, "Ok", "end")
               /\ released' = FALSE
    /\ UNCHANGED <<PINS_TAKEN, pins, started, quiet, freed>>
    /\ UNCHANGED <<pollVars, regVars>>

\* Mutant of DropGpio: a Drop that forgets the store.
DropGpioNoStore == GPIO_INSTANCED' = GPIO_INSTANCED

\* impl Drop for Gpio: GPIO_INSTANCED.store(false, SeqCst).
DropGpio == GPIO_INSTANCED' = FALSE

\* `return Err(Error::InstanceExists)` after the failed compare_and_swap: the
\* local `gpio` goes out of scope and its Drop runs.
NewDropLocal(t) ==
    /\ pc[t] = "drop"
    /\ DropGpio
    /\ pc' = [pc EXCEPT ![t] = "idle"]
    /\ last' = Ret("new", 0, 0, "InstanceExists", "cas")
    /\ UNCHANGED <<PINS_TAKEN, live, nextId, pins, started, quiet, released, freed>>
    /\ UNCHANGED <<pollVars, regVars>>

\* Mutant of Drop: the taken flags belong to the Gpio and are cleared with it.
DropClearsPins(g) ==
    /\ g \in live
    /\ DropGpio
    /\ live' = live \ {g}
    /\ PINS_TAKEN' = [l \in Lines |-> FALSE]
    /\ last' = Ret("drop", g, 0, "-", "-")
    /\ quiet' = FALSE
    /\ released' = (released \/ InNew = {})
    /\ UNCHANGED <<pc, nextId, pins, started, freed>>
    /\ UNCHANGED <<pollVars, regVars>>

\* A caller lets a Gpio it was given go out of scope.
Drop(g) ==
    /\ g \in live
    /\ DropGpio
    /\ live' = live \ {g}
    /\ last' = Ret("drop", g, 0, "-", "-")
    /\ quiet' = FALSE
    /\ released' = (released \/ InNew = {})
    /\ UNCHANGED <<PINS_TAKEN, pc, nextId, pins, started, freed>>
    /\ UNCHANGED <<pollVars, regVars>>

\* ------------------------------------------------------------- Gpio::get

\* Mutant of Get: the flag is stored without looking at its old value.
GetNoCas(t, g, p) ==
    /\ pc[t] = "idle"
    /\ g \in live
    /\ IF p >= MAX
          THEN /\ last' = Ret("get", g, p, "None", "range")
               /\ UNCHANGED <<PINS_TAKEN, pins, hnd>>
          ELSE /\ PINS_TAKEN' = [PINS_TAKEN EXCEPT ![p] = TRUE]
               /\ pins' = [pins EXCEPT ![p] = Append(@, g)]
               /\ hnd' = [hnd EXCEPT ![p] = NewHandle(GPFSEL, p)]
               /\ last' = Ret("get", g, p, "Some", "end")
    /\ UNCHANGED <<GPIO_INSTANCED, pc, live, nextId, started, quiet, released, freed>>
    /\ UNCHANGED <<GPFSEL, GPPUD, wpc, wreg>>
    /\ UNCHANGED pollVars

\* Mutant of Get: the flag is loaded, and never set.
GetLoadOnly(t, g, p) ==
    /\ pc[t] = "idle"
    /\ g \in live
    /\ IF p >= MAX
          THEN /\ last' = Ret("get", g, p, "None", "range")
               /\ UNCHANGED <<PINS_TAKEN, pins, hnd>>
          ELSE IF PINS_TAKEN[p]
                  THEN /\ last' = Ret("get", g, p, "None", "taken")
                       /\ UNCHANGED <<PINS_TAKEN, pins, hnd>>
                  ELSE /\ pins' = [pins EXCEPT ![p] = Append(@, g)]
                       /\ hnd' = [hnd EXCEPT ![p] = NewHandle(GPFSEL, p)]
                       /\ last' = Ret("get", g, p, "Some", "end")
                       /\ UNCHANGED PINS_TAKEN
    /\ UNCHANGED <<GPIO_INSTANCED, pc, live, nextId, started, quiet, released, freed>>
    /\ UNCHANGED <<GPFSEL, GPPUD, wpc, wreg>>
    /\ UNCHANGED pollVars

\* Mutant of Get: no range check, the index wraps around the array.
GetWraps(t, g, p) ==
    /\ pc[t] = "idle"
    /\ g \in live
    /\ IF PINS_TAKEN[p % MAX]
          THEN /\ last' = Ret("get", g, p, "None", "taken")
               /\ UNCHANGED <<PINS_TAKEN, pins, hnd>>
          ELSE /\ PINS_TAKEN' = [PINS_TAKEN EXCEPT ![p % MAX] = TRUE]
               /\ pins' = [pins EXCEPT ![p % MAX] = Append(@, g)]
               /\ hnd' = [hnd EXCEPT ![p % MAX] = NewHandle(GPFSEL, p % MAX)]
               /\ last' = Ret("get", g, p, "Some", "end")
    /\ UNCHANGED <<GPIO_INSTANCED, pc, live, nextId, started, quiet, released, freed>>
    /\ UNCHANGED <<GPFSEL, GPPUD, wpc, wreg>>
    /\ UNCHANGED pollVars

\* get(&self, pin): the range check, then compare_and_swap on the line's flag.
Get(t, g, p) ==
    /\ pc[t] = "idle"
    /\ g \in live
    /\ IF p >= MAX
          THEN /\ last' = Ret("get", g, p, "None", "range")
               /\ UNCHANGED <<PINS_TAKEN, pins, hnd>>
          ELSE IF PINS_TAKEN[p]
                  THEN /\ last' = Ret("get", g, p, "None", "taken")
                       /\ UNCHANGED <<PINS_TAKEN, pins, hnd>>
                  ELSE /\ PINS_TAKEN' = [PINS_TAKEN EXCEPT ![p] = TRUE]
                       /\ pins' = [pins EXCEPT ![p] = Append(@, g)]
                       /\ hnd' = [hnd EXCEPT ![p] = NewHandle(GPFSEL, p)]
                       /\ last' = Ret("get", g, p, "Some", "end")
    /\ UNCHANGED <<GPIO_INSTANCED, pc, live, nextId, started, quiet, released, freed>>
    /\ UNCHANGED <<GPFSEL, GPPUD, wpc, wreg>>
    /\ UNCHANGED pollVars

RemoveAt(s, i) == [k \in 1..(Len(s) - 1) |-> IF k < i THEN s[k] ELSE s[k + 1]]

\* What the release of the handle of line p has to revert: a mode other than
\* the one the line had when the handle was checked out (its original state)
\* and a pull resistor that is not off, unless the restore-on-release flag
\* was disabled.
NeedsMode(p) == hnd[p].clear /\ ReadMode(GPFSEL, p) # hnd[p].prev
NeedsPull(p) == hnd[p].clear /\ GPPUD[p] # "Off"

\* The step of the release that comes once the interrupt is disarmed.
AfterDisarm(p) == IF NeedsMode(p) THEN "mode" ELSE IF NeedsPull(p) THEN "pull" ELSE "token"

\* A Pin handle that armed an interrupt or changed the line's configuration
\* goes out of scope: the release begins and disarms any interrupt.
PinRelease(p) ==
    /\ p \in Lines
    /\ hnd[p].held
    /\ hnd[p].rel = "no"
    /\ hnd[p].armed \/ NeedsMode(p) \/ NeedsPull(p)
    /\ hnd' = [hnd EXCEPT ![p].armed = FALSE, ![p].rel = AfterDisarm(p)]
    /\ UNCHANGED <<GPFSEL, GPPUD, wpc, wreg>>
    /\ UNCHANGED <<gpioVars, pollVars>>

\* By default, pins are reset to their original state when they go out of
\* scope: the release puts back the mode the line had when the handle was
\* checked out, by a write of the line's field through the register map.
PinRestoreMode(p) ==
    /\ p \in Lines
    /\ hnd[p].rel = "mode"
    /\ GPFSEL' = WriteMode(GPFSEL, p, hnd[p].prev)
    /\ hnd' = [hnd EXCEPT ![p].rel = IF NeedsPull(p) THEN "pull" ELSE "token",
                          ![p].wrote = TRUE]
    /\ UNCHANGED <<GPPUD, wpc, wreg>>
    /\ UNCHANGED <<gpioVars, pollVars>>

\* The release switches the line's pull resistor off.
PinRestorePull(p) ==
    /\ p \in Lines
    /\ hnd[p].rel = "pull"
    /\ GPPUD' = [GPPUD EXCEPT ![p] = "Off"]
    /\ hnd' = [hnd EXCEPT ![p].rel = "token"]
    /\ UNCHANGED <<GPFSEL, wpc, wreg>>
    /\ UNCHANGED <<gpioVars, pollVars>>

\* The release ends, or, with no interrupt to disarm and nothing to revert,
\* consists of this step alone: the checkout token is given back, the line's
\* flag in PINS_TAKEN is cleared and the handle is gone.
PinDrop(p) ==
    /\ p \in Lines
    /\ \/ hnd[p].rel = "token"
       \/ hnd[p].rel = "no" /\ ~hnd[p].armed /\ ~NeedsMode(p) /\ ~NeedsPull(p)
    /\ \E i \in 1..Len(pins[p]) :
          /\ pins' = [pins EXCEPT ![p] = RemoveAt(@, i)]
          /\ last' = Ret("release", pins[p][i], p,
                         IF hnd[p].clear THEN "restored" ELSE "kept",
                         IF hnd[p].wrote THEN "set_mode" ELSE "-")
    /\ hnd' = [hnd EXCEPT ![p] = NoHandle]
    /\ PINS_TAKEN' = [PINS_TAKEN EXCEPT ![p] = FALSE]
    /\ freed' = p
    /\ UNCHANGED <<GPIO_INSTANCED, pc, live, nextId, started, quiet, released>>
    /\ UNCHANGED <<GPFSEL, GPPUD, wpc, wreg>>
    /\ UNCHANGED pollVars

Next ==
    \/ \E t \in Threads : NewLoad(t)
    \/ \E t \in Threads : NewInit(t)
    \/ \E t \in Threads : NewCas(t)
    \/ \E t \in Threads : NewDropLocal(t)
    \/ \E g \in GpioIds : Drop(g)
    \/ \E t \in Threads, g \in GpioIds, p \in PinArgs : Get(t, g, p)
    \/ \E p \in Lines : PinDrop(p)

Spec == Init /\ [][Next]_vars

\* -------------------------------------------------- Gpio::poll_interrupts

\* The state after one Gpio was built and every line was checked out from it
\* as an input pin armed for synchronous interrupts.
InitPoll ==
    /\ InitEventLoop
    /\ GPFSEL = 0
    /\ GPPUD = [l \in Lines |-> "Off"]
    /\ hnd = [l \in Lines |-> [NewHandle(0, l) EXCEPT !.armed = TRUE]]
    /\ wpc = [t \in Threads |-> "idle"]
    /\ wreg = [t \in Threads |-> NoWrite]
    /\ GPIO_INSTANCED = TRUE
    /\ PINS_TAKEN = [l \in Lines |-> TRUE]
    /\ pc = [t \in Threads |-> "idle"]
    /\ live = {1}
    /\ nextId = 2
    /\ pins = [l \in Lines |-> <<1>>]
    /\ last = [op |-> "get", g |-> 1, p |-> MAX - 1, res |-> "Some",
               site |-> "end", rel |-> FALSE]
    /\ started = 1
    /\ quiet = TRUE
    /\ released = FALSE
    /\ freed = MAX

\* The hardware reports an edge on an armed line.
Edge(l) ==
    /\ edges < MaxEdges
    /\ edges' = edges + 1
    /\ kernel' = [kernel EXCEPT ![l] = Append(@, [line |-> l, level |-> EdgeLevel, id |-> edges + 1])]
    /\ plast' = NoPoll
    /\ asked' = NoAsk
    /\ UNCHANGED <<mutex, ppc, parg, cache, returned, discarded, lost>>
    /\ UNCHANGED <<gpioVars, regVars>>

\* A thread calls poll_interrupts(pins, reset, timeout) on the Gpio g and
\* reaches lock().  The timeout of the call is recorded here; pins and reset
\* are first read by EventLoop::poll and are drawn when the lock is acquired.
PollCall(t, g, timeout) ==
    /\ ppc[t] = "idle"
    /\ g \in live
    /\ ppc' = [ppc EXCEPT ![t] = "lock"]
    /\ parg' = [parg EXCEPT ![t] = [NoArgs EXCEPT !.g = g, !.timeout = timeout]]
    /\ plast' = NoPoll
    /\ asked' = NoAsk
    /\ UNCHANGED <<mutex, kernel, cache, edges, returned, discarded, lost>>
    /\ UNCHANGED <<gpioVars, regVars>>

\* The lines whose Pin came from the Gpio g: get hands every Pin a clone of
\* the Gpio's sync_interrupts, so their interrupts are those of g's EventLoop.
Registered(g) == {l \in Lines : pins[l] # << >> /\ pins[l][1] = g}

\* The lines among ls that the EventLoop of the Gpio g has a record of.  A
\* pin that came from another Gpio armed its interrupt with that Gpio's
\* EventLoop: for the EventLoop of g its line has no cached event and no
\* descriptor.
Own(g, ls) == ls \cap Registered(g)

\* The cached events of the lines in ls, oldest first.
CachedFor(c, ls) == SelectSeq(c, LAMBDA e : e.line \in ls)

\* The cached events of the other lines.
CachedOutside(c, ls) == SelectSeq(c, LAMBDA e : e.line \notin ls)

Ids(c) == {c[i].id : i \in DOMAIN c}

\* EventLoop::poll up to the wait: a reset discards the cached events of the
\* given lines; then the earliest cached event of these lines, if any, is
\* taken out of the cache and returned.
PollCached(c, ls, reset) ==
    LET kept == IF reset THEN CachedOutside(c, ls) ELSE c
        ready == CachedFor(kept, ls)
    IN  IF ready = << >>
           THEN [found |-> FALSE, cache |-> kept, gone |-> Ids(c) \ Ids(kept)]
           ELSE [found |-> TRUE, ev |-> Head(ready),
                 cache |-> SelectSeq(kept, LAMBDA e : e.id # Head(ready).id),
                 gone |-> Ids(c) \ Ids(kept)]

\* EventLoop::poll entered with the given arguments, the Mutex being held by t:
\* either it returns a cached event at once, or it starts to wait.
EventLoopPoll(t, ls, reset) ==
    LET r == PollCached(cache, Own(parg[t].g, ls), reset)
    IN  /\ cache' = r.cache
        /\ discarded' = discarded \cup r.gone
        /\ IF r.found
              THEN /\ returned' = returned \cup {r.ev.id}
                   /\ plast' = [res |-> "Some", line |-> r.ev.line,
                                level |-> r.ev.level, id |-> r.ev.id,
                                waited |-> FALSE, polled |-> r.ev.polled]
                   /\ ppc' = [ppc EXCEPT ![t] = "idle"]
                   /\ parg' = [parg EXCEPT ![t] = NoArgs]
                   /\ mutex' = [mutex EXCEPT ![parg[t].g] = 0]
              ELSE /\ ppc' = [ppc EXCEPT ![t] = "wait"]
                   /\ parg' = [parg EXCEPT ![t].pins = ls]
                   /\ mutex' = [mutex EXCEPT ![parg[t].g] = t]
                   /\ plast' = NoPoll
                   /\ UNCHANGED returned

\* Mutant of PollLock: reset is not passed through, the event loop never resets.
PollLockDropsReset(t, sl, reset) ==
    /\ ppc[t] = "lock"
    /\ mutex[parg[t].g] = 0
    /\ asked' = [pins |-> sl, reset |-> reset]
    /\ EventLoopPoll(t, InSlice(sl), FALSE)
    /\ UNCHANGED <<kernel, edges, lost>>
    /\ UNCHANGED <<gpioVars, regVars>>

\* Mutant of PollLock: reset is not passed through, the event loop always resets.
PollLockAlwaysResets(t, sl, reset) ==
    /\ ppc[t] = "lock"
    /\ mutex[parg[t].g] = 0
    /\ asked' = [pins |-> sl, reset |-> reset]
    /\ EventLoopPoll(t, InSlice(sl), TRUE)
    /\ UNCHANGED <<kernel, edges, lost>>
    /\ UNCHANGED <<gpioVars, regVars>>

\* self.sync_interrupts.lock().unwrap() succeeds and .poll(pins, reset, timeout)
\* is entered, whatever input pins the slice holds; the event loop polls the
\* set of their lines.  The guard is released when poll returns.
PollLock(t, sl, reset) ==
    /\ ppc[t] = "lock"
    /\ mutex[parg[t].g] = 0
    /\ asked' = [pins |-> sl, reset |-> reset]
    /\ EventLoopPoll(t, InSlice(sl), reset)
    /\ UNCHANGED <<kernel, edges, lost>>
    /\ UNCHANGED <<gpioVars, regVars>>

\* The lines whose descriptor is readable.
Fired == {l \in Lines : kernel[l] # << >>}

\* Those of them that the EventLoop of the Gpio g reads.
FiredIn(g) == Fired \cap Registered(g)

\* A set of events of distinct lines as a sequence, by ascending line.
RECURSIVE ByLine(_)
ByLine(S) ==
    IF S = {} THEN << >>
    ELSE LET e == CHOOSE x \in S : \A y \in S : x.line <= y.line
         IN  <<e>> \o ByLine(S \ {e})

\* The unread events of the lines in ls.
Unread(ls) == UNION {{kernel[l][k] : k \in DOMAIN kernel[l]} : l \in ls}

\* The most recent event of every line that has an event in S.
Latest(S) == {e \in S : \A y \in S : y.line = e.line => y.id <= e.id}

\* The wait ends with events: all events that fired are drained; the first of
\* those of the requested lines is returned; of the others, every line's cache
\* takes the most recent one, which replaces what the line had cached.  The
\* events that are neither returned nor kept are lost.
PollWake(t) ==
    /\ ppc[t] = "wait"
    /\ Fired \cap Own(parg[t].g, parg[t].pins) # {}
    /\ LET ls == parg[t].pins
           drained == Unread(FiredIn(parg[t].g))
           qual == {e \in drained : e.line \in ls}
           ev == CHOOSE x \in qual : \A y \in qual : x.id <= y.id
           others == drained \ {ev}
           rest == {[line |-> e.line, level |-> e.level, id |-> e.id,
                     polled |-> e.line \in ls] : e \in Latest(others)}
           restLines == {e.line : e \in rest}
       IN  /\ kernel' = [l \in Lines |-> IF l \in FiredIn(parg[t].g)
                                            THEN << >> ELSE kernel[l]]
           /\ cache' = CachedOutside(cache, restLines) \o ByLine(rest)
           /\ lost' = lost \cup Ids(CachedFor(cache, restLines))
                                      \cup {e.id : e \in others \ Latest(others)}
           /\ returned' = returned \cup {ev.id}
           /\ plast' = [res |-> "Some", line |-> ev.line, level |-> ev.level,
                        id |-> ev.id, waited |-> TRUE, polled |-> TRUE]
    /\ ppc' = [ppc EXCEPT ![t] = "idle"]
    /\ parg' = [parg EXCEPT ![t] = NoArgs]
    /\ mutex' = [mutex EXCEPT ![parg[t].g] = 0]
    /\ asked' = NoAsk
    /\ UNCHANGED <<edges, discarded>>
    /\ UNCHANGED <<gpioVars, regVars>>

\* The wait ends because the timeout elapsed with no event: Ok(None).
PollTimeout(t) ==
    /\ ppc[t] = "wait"
    /\ parg[t].timeout # "None"
    /\ Fired \cap Own(parg[t].g, parg[t].pins) = {}
    /\ plast' = [res |-> "None", line |-> 0, level |-> "-", id |-> 0,
                 waited |-> TRUE, polled |-> FALSE]
    /\ ppc' = [ppc EXCEPT ![t] = "idle"]
    /\ parg' = [parg EXCEPT ![t] = NoArgs]
    /\ mutex' = [mutex EXCEPT ![parg[t].g] = 0]
    /\ asked' = NoAsk
    /\ UNCHANGED <<kernel, cache, edges, returned, discarded, lost>>
    /\ UNCHANGED <<gpioVars, regVars>>

\* The wait fails: the Err of EventLoop::poll is passed through to the caller,
\* no event having been read.
PollFails(t) ==
    /\ ppc[t] = "wait"
    /\ plast' = [res |-> "Err", line |-> 0, level |-> "-", id |-> 0,
                 waited |-> TRUE, polled |-> FALSE]
    /\ ppc' = [ppc EXCEPT ![t] = "idle"]
    /\ parg' = [parg EXCEPT ![t] = NoArgs]
    /\ mutex' = [mutex EXCEPT ![parg[t].g] = 0]
    /\ asked' = NoAsk
    /\ UNCHANGED <<kernel, cache, edges, returned, discarded, lost>>
    /\ UNCHANGED <<gpioVars, regVars>>

\* The thread panics inside EventLoop::poll: the guard is dropped while it
\* unwinds, which leaves the Mutex free and poisoned.
PollPanics(t) ==
    /\ ppc[t] = "wait"
    /\ plast' = [res |-> "panic", line |-> 0, level |-> "-", id |-> 0,
                 waited |-> TRUE, polled |-> FALSE]
    /\ ppc' = [ppc EXCEPT ![t] = "idle"]
    /\ parg' = [parg EXCEPT ![t] = NoArgs]
    /\ mutex' = [mutex EXCEPT ![parg[t].g] = Poisoned]
    /\ asked' = NoAsk
    /\ UNCHANGED <<kernel, cache, edges, returned, discarded, lost>>
    /\ UNCHANGED <<gpioVars, regVars>>

\* self.sync_interrupts.lock() returns a PoisonError and unwrap() panics:
\* EventLoop::poll is not entered, the Mutex stays poisoned.
PollLockPoisoned(t) ==
    /\ ppc[t] = "lock"
    /\ mutex[parg[t].g] = Poisoned
    /\ plast' = [res |-> "panic", line |-> 0, level |-> "-", id |-> 0,
                 waited |-> FALSE, polled |-> FALSE]
    /\ ppc' = [ppc EXCEPT ![t] = "idle"]
    /\ parg' = [parg EXCEPT ![t] = NoArgs]
    /\ asked' = NoAsk
    /\ UNCHANGED <<mutex, kernel, cache, edges, returned, discarded, lost>>
    /\ UNCHANGED <<gpioVars, regVars>>

NextPoll ==
    \/ \E l \in Lines : Edge(l)
    \/ \E t \in Threads, g \in GpioIds, timeout \in Timeouts : PollCall(t, g, timeout)
    \/ \E t \in Threads, sl \in PinSlices, reset \in BOOLEAN : PollLock(t, sl, reset)
    \/ \E t \in Threads : PollWake(t)
    \/ \E t \in Threads : PollTimeout(t)
    \/ \E t \in Threads : PollFails(t)
    \/ \E t \in Threads : PollPanics(t)
    \/ \E t \in Threads : PollLockPoisoned(t)

SpecPoll == InitPoll /\ [][NextPoll]_vars

\* The scheduling poll_interrupts runs under: a thread that can go on does; a
\* thread waiting at lock() gets the Mutex if it is free again and again; a
\* finite timeout elapses.  Callers need not call, edges need not come, and
\* the event loop need neither fail nor panic.
FairPoll ==
    \A t \in Threads :
        /\ SF_vars(\E sl \in PinSlices, reset \in BOOLEAN : PollLock(t, sl, reset))
        /\ WF_vars(PollLockPoisoned(t))
        /\ WF_vars(PollWake(t))
        /\ WF_vars(PollTimeout(t))

SpecPollFair == InitPoll /\ [][NextPoll]_vars /\ FairPoll

\* The state after two calls to Gpio::new returned Ok (a third one, returning
\* InstanceExists after its compare_and_swap, cleared the flag in between) and
\* the lines were checked out by turns from the two Gpios, armed for
\* synchronous interrupts.
InitPollTwo ==
    /\ InitEventLoop
    /\ GPFSEL = 0
    /\ GPPUD = [l \in Lines |-> "Off"]
    /\ hnd = [l \in Lines |-> [NewHandle(0, l) EXCEPT !.armed = TRUE]]
    /\ wpc = [t \in Threads |-> "idle"]
    /\ wreg = [t \in Threads |-> NoWrite]
    /\ GPIO_INSTANCED = TRUE
    /\ PINS_TAKEN = [l \in Lines |-> TRUE]
    /\ pc = [t \in Threads |-> "idle"]
    /\ live = {1, 2}
    /\ nextId = 3
    /\ pins = [l \in Lines |-> <<(l % 2) + 1>>]
    /\ last = [op |-> "get", g |-> ((MAX - 1) % 2) + 1, p |-> MAX - 1, res |-> "Some",
               site |-> "end", rel |-> FALSE]
    /\ started = 3
    /\ quiet = TRUE
    /\ released = FALSE
    /\ freed = MAX

SpecPollTwo == InitPollTwo /\ [][NextPoll]_vars

\* ------------------------------------------------------------ Pin handles

\* One Gpio is live and one line is checked out from it; the registers hold
\* whatever modes were configured before.
InitPin ==
    /\ InitEventLoop
    /\ GPIO_INSTANCED = TRUE
    /\ pc = [t \in Threads |-> "idle"]
    /\ live = {1}
    /\ nextId = 2
    /\ started = 1
    /\ quiet = TRUE
    /\ released = FALSE
    /\ freed = MAX
    /\ GPFSEL \in Words
    /\ GPPUD = [l \in Lines |-> "Off"]
    /\ wpc = [t \in Threads |-> "idle"]
    /\ wreg = [t \in Threads |-> NoWrite]
    /\ \E l \in Lines :
          /\ PINS_TAKEN = [k \in Lines |-> k = l]
          /\ pins = [k \in Lines |-> IF k = l THEN <<1>> ELSE << >>]
          /\ hnd = [k \in Lines |-> IF k = l THEN NewHandle(GPFSEL, l) ELSE NoHandle]
          /\ last = [op |-> "get", g |-> 1, p |-> l, res |-> "Some",
                     site |-> "end", rel |-> FALSE]

\* The handle of line l changes the line's mode (into_input, into_output,
\* into_alt) by a write of the line's field through the register map.
SetMode(l, m) ==
    /\ hnd[l].held
    /\ hnd[l].rel = "no"
    /\ GPFSEL' = WriteMode(GPFSEL, l, m)
    /\ UNCHANGED <<GPPUD, hnd, wpc, wreg>>
    /\ UNCHANGED <<gpioVars, pollVars>>

\* The input view sets the line's pull resistor.
SetPullUpDown(l, pud) ==
    /\ hnd[l].held
    /\ hnd[l].rel = "no"
    /\ ReadMode(GPFSEL, l) = "Input"
    /\ GPPUD' = [GPPUD EXCEPT ![l] = pud]
    /\ UNCHANGED <<GPFSEL, hnd, wpc, wreg>>
    /\ UNCHANGED <<gpioVars, pollVars>>

\* The input view arms (a trigger other than Disabled) or disarms the line's
\* interrupt.
SetInterrupt(l, on) ==
    /\ hnd[l].held
    /\ hnd[l].rel = "no"
    /\ ReadMode(GPFSEL, l) = "Input"
    /\ hnd' = [hnd EXCEPT ![l].armed = on]
    /\ UNCHANGED <<GPFSEL, GPPUD, wpc, wreg>>
    /\ UNCHANGED <<gpioVars, pollVars>>

\* set_clear_on_drop(b): enables or disables the reset on release.
SetClearOnDrop(l, b) ==
    /\ hnd[l].held
    /\ hnd[l].rel = "no"
    /\ hnd' = [hnd EXCEPT ![l].clear = b]
    /\ UNCHANGED <<GPFSEL, GPPUD, wpc, wreg>>
    /\ UNCHANGED <<gpioVars, pollVars>>

NextPin ==
    \/ \E l \in Lines, m \in Modes : SetMode(l, m)
    \/ \E l \in Lines, pud \in PullUpDown : SetPullUpDown(l, pud)
    \/ \E l \in Lines, on \in BOOLEAN : SetInterrupt(l, on)
    \/ \E l \in Lines, b \in BOOLEAN : SetClearOnDrop(l, b)
    \/ \E p \in Lines : PinRelease(p)
    \/ \E p \in Lines : PinRestoreMode(p)
    \/ \E p \in Lines : PinRestorePull(p)
    \/ \E p \in Lines : PinDrop(p)

SpecPin == InitPin /\ [][NextPin]_vars

\* ------------------------------------------ mode writes of several threads

\* The line whose handle thread t holds.
OwnLine(t) == (t - 1) % MAX

\* One Gpio is live, every line was checked out from it as an input, and each
\* thread holds the handle of a line of its own.
InitMode ==
    /\ InitEventLoop
    /\ GPIO_INSTANCED = TRUE
    /\ PINS_TAKEN = [l \in Lines |-> TRUE]
    /\ pc = [t \in Threads |-> "idle"]
    /\ live = {1}
    /\ nextId = 2
    /\ pins = [l \in Lines |-> <<1>>]
    /\ last = [op |-> "get", g |-> 1, p |-> MAX - 1, res |-> "Some",
               site |-> "end", rel |-> FALSE]
    /\ started = 1
    /\ quiet = TRUE
    /\ released = FALSE
    /\ freed = MAX
    /\ GPFSEL = 0
    /\ GPPUD = [l \in Lines |-> "Off"]
    /\ hnd = [l \in Lines |-> NewHandle(GPFSEL, l)]
    /\ wpc = [t \in Threads |-> "idle"]
    /\ wreg = [t \in Threads |-> NoWrite]

\* Thread t calls write_mode(line, mode) on the handle it holds and reaches the
\* read-modify-write of the line's register word.  The mode it passes is first
\* used inside the read-modify-write and is drawn there.
WriteModeCall(t) ==
    /\ wpc[t] = "idle"
    /\ hnd[OwnLine(t)].held
    /\ \A u \in Threads \ {t} : wpc[u] # "idle" => wreg[u].line # OwnLine(t)
    /\ wpc' = [wpc EXCEPT ![t] = "enter"]
    /\ wreg' = [wreg EXCEPT ![t] = [NoWrite EXCEPT !.line = OwnLine(t)]]
    /\ UNCHANGED <<GPFSEL, GPPUD, hnd>>
    /\ UNCHANGED <<gpioVars, pollVars>>

\* Mutant of WriteModeLoad: the word is read while another thread is between
\* its own read and store of the same word.
WriteModeLoadUnlocked(t, m) ==
    /\ wpc[t] = "enter"
    /\ wpc' = [wpc EXCEPT ![t] = "store"]
    /\ wreg' = [wreg EXCEPT ![t].mode = m,
                            ![t].value = WriteMode(GPFSEL, wreg[t].line, m)]
    /\ UNCHANGED <<GPFSEL, GPPUD, hnd>>
    /\ UNCHANGED <<gpioVars, pollVars>>

\* write_mode, first half of the read-modify-write of the packed word: the
\* register map admits one thread at a time to the read-modify-write of a
\* word; thread t enters it, reads the word and computes the word to store.
WriteModeLoad(t, m) ==
    /\ wpc[t] = "enter"
    /\ \A u \in Threads : wpc[u] # "store"
    /\ wpc' = [wpc EXCEPT ![t] = "store"]
    /\ wreg' = [wreg EXCEPT ![t].mode = m,
                            ![t].value = WriteMode(GPFSEL, wreg[t].line, m)]
    /\ UNCHANGED <<GPFSEL, GPPUD, hnd>>
    /\ UNCHANGED <<gpioVars, pollVars>>

\* write_mode, second half: the word is stored and the read-modify-write is
\* left.  It is noted whether another thread's write_mode was under way.
WriteModeStore(t) ==
    /\ wpc[t] = "store"
    /\ GPFSEL' = wreg[t].value
    /\ wpc' = [wpc EXCEPT ![t] = "idle"]
    /\ wreg' = [wreg EXCEPT ![t].value = 0,
                            ![t].raced = (\E u \in Threads \ {t} : wpc[u] # "idle")]
    /\ UNCHANGED <<GPPUD, hnd>>
    /\ UNCHANGED <<gpioVars, pollVars>>

NextMode ==
    \/ \E t \in Threads : WriteModeCall(t)
    \/ \E t \in Threads, m \in Modes : WriteModeLoad(t, m)
    \/ \E t \in Threads : WriteModeStore(t)

SpecMode == InitMode /\ [][NextMode]_vars

\* ================================================================ claims

\* A step in which thread t's Gpio::new returns InstanceExists from the pre-check.
NewFailsAtLoad(t) ==
    /\ pc[t] = "idle" /\ pc' = pc
    /\ GPIO_INSTANCED
    /\ last'.op = "new" /\ last'.site = "load"
    /\ (last' # last \/ started' # started)

\* A step in which thread t's Gpio::new returns InstanceExists after the
\* compare_and_swap failed.
NewFailsAtCas(t) ==
    /\ pc[t] = "drop" /\ pc'[t] = "idle"
    /\ last'.op = "new" /\ last'.site = "cas"

\* A step in which a get on argument p returns.
GetReturns(p) ==
    /\ last' # last
    /\ last'.op = "get"
    /\ last'.p = p

\* C1: under any interleaving of Gpio::new calls and Gpio drops, at most one
\* Gpio returned by new is live.
C1_AtMostOneLive == Cardinality(live) <= 1

\* C2: when exactly two calls to Gpio::new have been made from the initial
\* state (no live instance), no initialisation failed and no caller dropped a
\* Gpio, then once both have returned exactly one Gpio has been handed out:
\* one call returned Ok and the other InstanceExists.
C2_RaceHasOneWinner ==
    (started = 2 /\ quiet /\ InNew = {}) =>
        /\ Cardinality(live) = 1
        /\ nextId = 2
        /\ last.op = "new" => last.res \in {"Ok", "InstanceExists"}

\* Both calls passed the pre-check, and the loser failed at the compare_and_swap.
C2_Witness ==
    /\ started = 2 /\ quiet /\ InNew = {}
    /\ Cardinality(live) = 1
    /\ last.op = "new" /\ last.res = "InstanceExists" /\ last.site = "cas"

\* C3: no step of a Gpio::new call that returns InstanceExists, at either
\* failure site, changes GPIO_INSTANCED: the flag is still set, for the live
\* instance, when the call has returned.
C3_FailedNewKeepsFlag ==
    [][\A t \in Threads :
          (NewFailsAtLoad(t) \/ NewFailsAtCas(t)) =>
              /\ GPIO_INSTANCED' = GPIO_INSTANCED
              /\ GPIO_INSTANCED']_vars

\* C4: no line ever has two live Pin handles, and a get refused because the
\* line is taken leaves exactly one holder of it (the winner).
C4_OneHandlePerLine ==
    /\ \A l \in Lines : Len(pins[l]) <= 1
    /\ (last.op = "get" /\ last.site = "taken") => Len(pins[last.p]) = 1

\* A get lost against a live handle of the same line.
C4_Witness ==
    /\ last.op = "get" /\ last.res = "None" /\ last.site = "taken"
    /\ Len(pins[last.p]) = 1

\* C5: a get on a valid line returns Some exactly when no Pin handle for the
\* line is live, and then the line is held; after the handle is released the
\* line has no holder, so the next get returns Some again.
C5_GetIffFree ==
    [][/\ \A l \in Lines :
             GetReturns(l) =>
                 /\ (last'.res = "Some") <=> (pins[l] = << >>)
                 /\ pins'[l] # << >>
       /\ \A l \in Lines :
             (last' # last /\ last'.op = "release" /\ last'.p = l) => pins'[l] = << >>]_vars

\* A line that was released before is checked out again.
C5_Witness ==
    /\ last.op = "get" /\ last.res = "Some"
    /\ last.p = freed

\* C6: after a caller drops a Gpio while no construction is in progress the
\* flag is clear, and the next Gpio::new to return whose initialisation
\* succeeded returns Ok.
C6_DropReleasesClaim ==
    /\ released => ~GPIO_INSTANCED
    /\ (last.op = "new" /\ last.rel /\ last.res # "Err") => last.res = "Ok"

\* A construction that succeeded after a drop.
C6_Witness ==
    /\ last.op = "new" /\ last.rel /\ last.res = "Ok"
    /\ last.g > 1

\* C7: while a Pin handle obtained from a Gpio that has since been dropped is
\* live, a get on its line through any other Gpio returns None and leaves the
\* handle in place.
C7_LineOutlivesGpio ==
    [][\A l \in Lines :
          (GetReturns(l) /\ pins[l] # << >> /\ pins[l][1] \notin live) =>
              /\ last'.res = "None"
              /\ pins' = pins
              /\ PINS_TAKEN'[l]]_vars

\* A get through a live Gpio refused because of a handle from a dropped one.
C7_Witness ==
    /\ last.op = "get" /\ last.res = "None" /\ last.site = "taken"
    /\ last.g \in live
    /\ pins[last.p] # << >>
    /\ pins[last.p][1] \notin live
    /\ pins[last.p][1] # last.g

\* C8: get returns None exactly when its argument is out of range or the
\* line's flag is set, and a get that returns None changes no taken flag and
\* no handle.
C8_NoneIffInvalidOrTaken ==
    [][\A a \in PinArgs :
          GetReturns(a) =>
              /\ (last'.res = "None") <=> (a >= MAX \/ PINS_TAKEN[a])
              /\ (last'.res = "None") => (PINS_TAKEN' = PINS_TAKEN /\ pins' = pins)]_vars

\* An out-of-range get returned None while a line was checked out.
C8_Witness ==
    /\ last.op = "get" /\ last.p >= MAX /\ last.res = "None"
    /\ \E l \in Lines : PINS_TAKEN[l]

\* C9: a failed initialisation ends Gpio::new with the error, hands out no
\* Gpio and leaves GPIO_INSTANCED as it was.
C9_InitFailureLeavesNoTrace ==
    [][\A t \in Threads :
          (pc[t] = "init" /\ pc'[t] = "idle") =>
              /\ last'.op = "new" /\ last'.res = "Err"
              /\ live' = live
              /\ nextId' = nextId
              /\ GPIO_INSTANCED' = GPIO_INSTANCED]_vars

\* A construction that succeeded although an initialisation had failed before
\* and nothing was dropped: the failed attempt blocked nothing.
C9_Witness ==
    /\ last.op = "new" /\ last.res = "Ok"
    /\ ~quiet
    /\ nextId = 2
    /\ \A l \in Lines : pins[l] = << >>
    /\ freed = MAX


\* In how many places the event of edge i is kept: unread, cached, returned,
\* discarded by a reset.
Kept(i) ==
    Cardinality({lk \in Lines \X (1..MaxEdges) :
                    /\ lk[2] \in DOMAIN kernel[lk[1]]
                    /\ kernel[lk[1]][lk[2]].id = i})
    + Cardinality({k \in DOMAIN cache : cache[k].id = i})
    + (IF i \in returned THEN 1 ELSE 0)
    + (IF i \in discarded THEN 1 ELSE 0)

\* The same, counting the lost events as well.
Occurrences(i) == Kept(i) + (IF i \in lost THEN 1 ELSE 0)

\* A step in which thread t's call acquires the Mutex and enters EventLoop::poll.
PollEnters(t) == ppc[t] = "lock" /\ ppc'[t] # "lock" /\ plast'.res # "panic"

\* A step in which thread t's wait ends with an event.
PollWakes(t) == ppc[t] = "wait" /\ ppc'[t] = "idle" /\ plast'.res = "Some"

\* The events a wake-up of thread t's call drains.
Drained(t) == Unread(FiredIn(parg[t].g))

\* The cached events a call of thread t that enters EventLoop::poll in this
\* step finds for the lines it passes: those the EventLoop of the Gpio it
\* called holds for them.
CachedAsked(t) == CachedFor(cache, Own(parg[t].g, InSlice(asked'.pins)))

\* The ids of the events of line l that are unread or cached.
PendingOn(l) == {e.id : e \in Unread({l})} \cup Ids(CachedFor(cache, {l}))

\* What every call does with the events it returns: only a call made with
\* reset = true discards events; a call with reset = false that finds cached
\* events of its lines returns the earliest of them at once, without waiting
\* and without reading the descriptors; a wake-up returns the earliest of the
\* events it drains for the polled lines; no event is returned twice.
ReturnsEarliestOnce ==
    /\ discarded' # discarded => asked'.reset
    /\ \A t \in Threads :
          (PollEnters(t) /\ ~asked'.reset /\ CachedAsked(t) # << >>) =>
              LET e == Head(CachedAsked(t))
              IN  /\ ppc'[t] = "idle"
                  /\ plast'.res = "Some" /\ plast'.id = e.id /\ plast'.line = e.line
                  /\ ~plast'.waited
                  /\ e.id \notin returned /\ returned' = returned \cup {e.id}
                  /\ Ids(cache') = Ids(cache) \ {e.id}
                  /\ kernel' = kernel
    /\ \A t \in Threads :
          PollWakes(t) =>
              /\ \E e \in Drained(t) :
                    /\ e.line \in parg[t].pins
                    /\ plast'.id = e.id
                    /\ \A y \in Drained(t) : y.line \in parg[t].pins => e.id <= y.id
              /\ plast'.id \notin returned /\ returned' = returned \cup {plast'.id}

C11_ResetDiscardsOnlyPassedLines ==
    /\ [](returned \cap discarded = {})
    /\ [][/\ \A t \in Threads :
                (PollEnters(t) /\ asked'.reset) =>
                    /\ discarded' = discarded \cup Ids(CachedAsked(t))
                    /\ cache' = CachedOutside(cache, Own(parg[t].g, InSlice(asked'.pins)))
                    /\ returned' = returned
                    /\ ppc'[t] = "wait"
          /\ \A t \in Threads :
                (ppc[t] = "wait" /\ ppc'[t] = "idle" /\ plast'.res = "Some") =>
                    plast'.id \notin (Ids(cache) \cup discarded)]_vars

\* A call with reset = true has entered the event loop and waits, while the
\* cached event of a line it was not passed is still cached.
C11_Witness ==
    /\ asked.reset
    /\ InSlice(asked.pins) # {} /\ InSlice(asked.pins) # Lines
    /\ cache # << >>
    /\ \A k \in DOMAIN cache : cache[k].line \notin InSlice(asked.pins)
    /\ \E t \in Threads : ppc[t] = "wait" /\ parg[t].pins = InSlice(asked.pins)

\* C12: a poll_interrupts call made with a finite timeout always returns: from
\* the moment it is made, no interleaving with the calls of other threads,
\* among them a call waiting with timeout None, keeps it from returning.
C12_FiniteTimeoutReturns ==
    \A t \in Threads :
        (ppc[t] = "lock" /\ parg[t].timeout = "Some") ~> (ppc[t] = "idle")

\* A step that completes the release of the handle of line l,
\* restore-on-release enabled.
Releases(l) ==
    /\ hnd[l].held /\ hnd[l].clear
    /\ ~hnd'[l].held

\* C13: when the release of a Pin handle whose restore-on-release flag is
\* enabled completes, the line's mode reads Input, its pull resistor is Off
\* and its interrupt is disarmed, whatever mode the line had at checkout and
\* whatever the handle did; and the line can be checked out again.
C13_ReleaseLeavesInput ==
    [][\A l \in Lines :
          Releases(l) =>
              /\ ReadMode(GPFSEL', l) = "Input"
              /\ GPPUD'[l] = "Off"
              /\ ~hnd'[l].armed
              /\ ~PINS_TAKEN'[l]]_vars

InPoll == {t \in Threads : ppc[t] = "wait"}

\* C15: no two threads are inside EventLoop::poll at the same time; a thread
\* inside it holds the Mutex of the live Gpio it called, a held Mutex is held
\* by a thread inside the poll of its Gpio, and every checked-out Pin carries
\* the EventLoop of one Gpio that new has returned, the one it came from.
C15_PollSerialized ==
    /\ Cardinality(InPoll) <= 1
    /\ \A t \in InPoll :
          /\ parg[t].g \in live
          /\ mutex[parg[t].g] = t
    /\ \A g \in GpioIds :
          mutex[g] \in Threads => (mutex[g] \in InPoll /\ parg[mutex[g]].g = g)
    /\ \A l \in Lines :
          hnd[l].held => (Len(pins[l]) = 1 /\ pins[l][1] \in 1..(nextId - 1))

\* C16: a Gpio::new that finds the flag set at its pre-check does not go on to
\* the initialisation (no device file opened, no event loop created, no memory
\* mapped): it returns InstanceExists in that same step, writes neither the
\* flag nor any taken flag and hands out no Gpio.
C16_PreCheckReturnsEarly ==
    [][\A t \in Threads :
          /\ (GPIO_INSTANCED /\ pc[t] = "idle") => pc'[t] = "idle"
          /\ NewFailsAtLoad(t) =>
                /\ last'.res = "InstanceExists"
                /\ GPIO_INSTANCED' = GPIO_INSTANCED
                /\ PINS_TAKEN' = PINS_TAKEN
                /\ live' = live
                /\ nextId' = nextId]_vars

\* A call returned InstanceExists from the pre-check while an instance is live.
C16_Witness ==
    /\ last.op = "new" /\ last.res = "InstanceExists" /\ last.site = "load"
    /\ GPIO_INSTANCED
    /\ live # {}
    /\ InNew = {}

\* C17: whenever GPIO_INSTANCED is set, a Gpio returned by a successful new is
\* live; so when every Gpio has been dropped and no construction is in
\* progress the flag is clear.
C17_FlagHasOwner ==
    /\ GPIO_INSTANCED => live # {}
    /\ (live = {} /\ InNew = {}) => ~GPIO_INSTANCED

\* The flag is set for a second Gpio, the first one having been dropped.
C17_Witness ==
    /\ GPIO_INSTANCED
    /\ live = {2}
    /\ InNew = {}

\* C18: a get or a release on line i changes no taken flag but that of line i
\* and never GPIO_INSTANCED; a step of Gpio::new or the drop of a Gpio changes
\* no taken flag and no handle.
C18_RegistriesIndependent ==
    [][/\ (last' # last /\ last'.op \in {"get", "release"}) =>
              /\ GPIO_INSTANCED' = GPIO_INSTANCED
              /\ \A j \in Lines \ {last'.p} : PINS_TAKEN'[j] = PINS_TAKEN[j]
       /\ PINS_TAKEN' # PINS_TAKEN =>
              (last' # last /\ last'.op \in {"get", "release"})
       /\ (pc' # pc \/ GPIO_INSTANCED' # GPIO_INSTANCED
              \/ (last' # last /\ last'.op \in {"new", "drop"})) =>
              (PINS_TAKEN' = PINS_TAKEN /\ pins' = pins)]_vars

\* A line was released while another line is still taken and a Gpio is live
\* with the flag set; the line taken belongs to a Gpio dropped before.
C18_Witness ==
    /\ last.op = "release"
    /\ GPIO_INSTANCED /\ live # {}
    /\ ~PINS_TAKEN[last.p]
    /\ \E j \in Lines \ {last.p} : PINS_TAKEN[j] /\ pins[j][1] \notin live

====
